---- MODULE Spec2Model ----
(***************************************************************************)
(* Schema construction of pkg/yamlmeta/schema.go: a schema document, whose *)
(* values are exemplars, is walked recursively and turned into a tree of   *)
(* types (DocumentType, MapType, MapItemType, ArrayType, ArrayItemType,    *)
(* ScalarType), or into the error of the first node that cannot be built.  *)
(*                                                                         *)
(* The builders are pure recursive functions; they are operators here.     *)
(* The state machine picks a schema document and applies the builders to   *)
(* the document and to the nodes inside it, recording the call's argument  *)
(* and its result.                                                         *)
(***************************************************************************)
EXTENDS Integers, Sequences, FiniteSets, TLC

VARIABLES doc, op, arg, out, nullable

vars == <<doc, op, arg, out, nullable>>

---------------------------------------------------------------------------
(* Bounds                                                                  *)

\* Largest schema document, counted in lines: one for the top-level value,
\* one for every map item and array item below it.
MaxNodes == 3

---------------------------------------------------------------------------
(* Nodes of the schema document                                            *)

AnnotationSchemaNullable == "schema/nullable"

\* The annotation sets a node of the document may carry.
AnnotationSets == {{}, {AnnotationSchemaNullable}}

\* Go values string, int and bool carry no position; neither does nil.
NoPosition == 0

\* Dynamic kinds of an exemplar value: *Map, *Array, string, int, bool, nil
\* (YAML null) and one kind the type switch does not list (float64).
ScalarKinds == {"string", "int", "bool"}

LeafKinds == ScalarKinds \cup {"nil", "float64"}

Leaf(k) == [kind |-> k, Items |-> <<>>, annotations |-> {}, Position |-> NoPosition]

\* The nil interface value: YAML null as an exemplar, "no default" as a default.
NilValue == Leaf("nil")

\* Keys of the items of one map, by index: unique within the map.
Keys == <<"a", "b", "c", "d", "e", "f">>

RECURSIVE Values(_, _)
RECURSIVE ItemSeqs(_, _, _, _)

\* The item sequences of a map (isMap) or array that take `total` lines, the
\* first item on line `line`; idx is the index of the first item.
ItemSeqs(total, line, isMap, idx) ==
    IF total = 0 THEN {<<>>}
    ELSE UNION {
           { <<IF isMap
                 THEN [Key |-> Keys[idx], Value |-> v, annotations |-> an, Position |-> line]
                 ELSE [Value |-> v, annotations |-> an, Position |-> line]>> \o rest :
               v \in Values(s, line), an \in AnnotationSets,
               rest \in ItemSeqs(total - s, line + s, isMap, idx + 1) } :
           s \in 1..total }

\* The values that take n lines and start on line `line`.  An array's own
\* annotations are never read by the builder, so arrays carry none.
Values(n, line) ==
    IF n = 1
    THEN { Leaf(k) : k \in LeafKinds }
         \cup { [kind |-> "map", Items |-> <<>>, annotations |-> an, Position |-> line] :
                  an \in AnnotationSets }
         \cup { [kind |-> "array", Items |-> <<>>, annotations |-> {}, Position |-> line] }
    ELSE { [kind |-> "map", Items |-> its, annotations |-> an, Position |-> line] :
             its \in ItemSeqs(n - 1, line + 1, TRUE, 1), an \in AnnotationSets }
         \cup { [kind |-> "array", Items |-> its, annotations |-> {}, Position |-> line] :
                  its \in ItemSeqs(n - 1, line + 1, FALSE, 1) }

\* The schema documents: a position and a top-level value.
Documents ==
    { [Value |-> v, Position |-> 1] : v \in UNION { Values(n, 1) : n \in 1..MaxNodes } }

RECURSIVE SubValues(_)
\* Every value inside v, v included.
SubValues(v) ==
    {v} \cup UNION { SubValues(v.Items[i].Value) : i \in 1..Len(v.Items) }

MapsOf(d) == { v \in SubValues(d.Value) : v.kind = "map" }

ArraysOf(d) == { v \in SubValues(d.Value) : v.kind = "array" }

MapItemsOf(d) == UNION { { m.Items[i] : i \in 1..Len(m.Items) } : m \in MapsOf(d) }

ArrayItemsOf(d) == UNION { { a.Items[i] : i \in 1..Len(a.Items) } : a \in ArraysOf(d) }

---------------------------------------------------------------------------
(* Collaborators outside schema.go                                         *)

\* template.NewAnnotations: the annotations attached to a node.
NewAnnotations(node) == node.annotations

\* filepos.Position.AsCompactString: a position rendered for a message.
AsCompactString(pos) == IF pos = NoPosition THEN <<"?">> ELSE <<"line", pos>>

---------------------------------------------------------------------------
(* Errors: the format string of fmt.Errorf and its arguments               *)

ErrEmptyArray == "Expected one item in array (describing the type of its elements) at %s"

ErrManyItems == "Expected one item (found %v) in array (describing the type of its elements) at %s"

ErrNullableItem == "Array items cannot be annotated with #@schema/nullable (%s)"

ErrUnknownType == "Collection item type did not match any known types"

\* A message that names no position.
NoAt == <<>>

NoErr == [msg |-> "", found |-> 0, at |-> NoAt]

\* A nil *MapType, *ArrayType, Type or *DocumentSchema.
Nil == [type |-> "nil"]

---------------------------------------------------------------------------
(* The builders.  A result is the returned pair (val, err) and `built`,    *)
(* the positions of the items whose build was entered, in call order.      *)
(* The part of a builder that follows its recursive call is an operator of *)
(* its own, which takes the result r of that call.                         *)

RECURSIVE NewMapType(_)
RECURSIVE NewMapTypeItems(_, _, _)
RECURSIVE NewMapItemType(_)
RECURSIVE NewArrayType(_)
RECURSIVE NewArrayItemType(_)
RECURSIVE newCollectionItemValueType(_)

\* The end of the loop body with the built item put in front of mapType.Items.
NewMapTypeItem_Prepend(items, acc, built, r) ==
    IF r.err # NoErr
    THEN [val |-> Nil, err |-> r.err, built |-> built \o r.built]
    ELSE NewMapTypeItems(Tail(items), <<r.val>> \o acc, built \o r.built)

\* The end of the loop body that skips an item that failed and goes on.
NewMapTypeItem_KeepGoing(items, acc, built, r) ==
    IF r.err # NoErr
    THEN NewMapTypeItems(Tail(items), acc, built \o r.built)
    ELSE NewMapTypeItems(Tail(items), Append(acc, r.val), built \o r.built)

\* The body of the loop of NewMapType after NewMapItemType(mapItem) returned r.
NewMapTypeItem(items, acc, built, r) ==
    IF r.err # NoErr
    THEN [val |-> Nil, err |-> r.err, built |-> built \o r.built]
    ELSE NewMapTypeItems(Tail(items), Append(acc, r.val), built \o r.built)

\* The loop of NewMapType over m.Items: acc is mapType.Items so far.
NewMapTypeItems(items, acc, built) ==
    IF items = <<>>
    THEN [val |-> acc, err |-> NoErr, built |-> built]
    ELSE NewMapTypeItem(items, acc, built, NewMapItemType(Head(items)))

\* The end of NewMapType that keeps the items of a nullable map.
NewMapTypeAnnotated_KeepItems(m, loop) ==
    IF loop.err # NoErr
    THEN [val |-> Nil, err |-> loop.err, built |-> loop.built]
    ELSE [val |-> [type |-> "MapType", Items |-> loop.val],
          err |-> NoErr, built |-> loop.built]

\* NewMapType after its loop returned `loop`: the map's own annotations.
NewMapTypeAnnotated(m, loop) ==
    IF loop.err # NoErr
    THEN [val |-> Nil, err |-> loop.err, built |-> loop.built]
    ELSE [val |-> [type |-> "MapType",
                   Items |-> IF AnnotationSchemaNullable \in NewAnnotations(m)
                             THEN <<>>
                             ELSE loop.val],
          err |-> NoErr, built |-> loop.built]

NewMapType(m) == NewMapTypeAnnotated(m, NewMapTypeItems(m.Items, <<>>, <<>>))

\* &Array{}: the default of an item whose exemplar is an array.
EmptyArray == [kind |-> "array", Items |-> <<>>, annotations |-> {}, Position |-> NoPosition]

\* The default value with the array rule applied after the nullable rule.
DefaultValueOf_ArrayLast(item) ==
    IF item.Value.kind = "array" THEN EmptyArray
    ELSE IF AnnotationSchemaNullable \in NewAnnotations(item) THEN NilValue
    ELSE item.Value

\* defaultValue of NewMapItemType.
DefaultValueOf(item) ==
    IF AnnotationSchemaNullable \in NewAnnotations(item) THEN NilValue
    ELSE IF item.Value.kind = "array" THEN EmptyArray
    ELSE item.Value

\* NewMapItemType after newCollectionItemValueType(item.Value) returned r.
NewMapItemTypeOf(item, r) ==
    IF r.err # NoErr
    THEN [val |-> Nil, err |-> r.err, built |-> <<item.Position>> \o r.built]
    ELSE [val |-> [type |-> "MapItemType", Key |-> item.Key, ValueType |-> r.val,
                   DefaultValue |-> DefaultValueOf(item), Position |-> item.Position,
                   annotations |-> NewAnnotations(item)],
          err |-> NoErr, built |-> <<item.Position>> \o r.built]

NewMapItemType(item) == NewMapItemTypeOf(item, newCollectionItemValueType(item.Value))

\* NewArrayType after NewArrayItemType(a.Items[0]) returned r.
NewArrayTypeOf(r) ==
    IF r.err # NoErr
    THEN [val |-> Nil, err |-> r.err, built |-> r.built]
    ELSE [val |-> [type |-> "ArrayType", ItemsType |-> r.val],
          err |-> NoErr, built |-> r.built]

\* NewArrayType without the check for more than one item.
NewArrayType_FirstItem(a) ==
    IF Len(a.Items) = 0
    THEN [val |-> Nil,
          err |-> [msg |-> ErrEmptyArray, found |-> 0, at |-> AsCompactString(a.Position)],
          built |-> <<>>]
    ELSE NewArrayTypeOf(NewArrayItemType(a.Items[1]))

NewArrayType(a) ==
    IF Len(a.Items) = 0
    THEN [val |-> Nil,
          err |-> [msg |-> ErrEmptyArray, found |-> 0, at |-> AsCompactString(a.Position)],
          built |-> <<>>]
    ELSE IF Len(a.Items) > 1
    THEN [val |-> Nil,
          err |-> [msg |-> ErrManyItems, found |-> Len(a.Items),
                   at |-> AsCompactString(a.Position)],
          built |-> <<>>]
    ELSE NewArrayTypeOf(NewArrayItemType(a.Items[1]))

\* The end of NewArrayItemType with the annotation checked before the error
\* of the value type.
NewArrayItemTypeOf_CheckFirst(item, r) ==
    IF AnnotationSchemaNullable \in NewAnnotations(item)
    THEN [val |-> Nil,
          err |-> [msg |-> ErrNullableItem, found |-> 0,
                   at |-> AsCompactString(item.Position)],
          built |-> <<item.Position>> \o r.built]
    ELSE IF r.err # NoErr
    THEN [val |-> Nil, err |-> r.err, built |-> <<item.Position>> \o r.built]
    ELSE [val |-> [type |-> "ArrayItemType", ValueType |-> r.val],
          err |-> NoErr, built |-> <<item.Position>> \o r.built]

\* NewArrayItemType after newCollectionItemValueType(item.Value) returned r.
NewArrayItemTypeOf(item, r) ==
    IF r.err # NoErr
    THEN [val |-> Nil, err |-> r.err, built |-> <<item.Position>> \o r.built]
    ELSE IF AnnotationSchemaNullable \in NewAnnotations(item)
    THEN [val |-> Nil,
          err |-> [msg |-> ErrNullableItem, found |-> 0,
                   at |-> AsCompactString(item.Position)],
          built |-> <<item.Position>> \o r.built]
    ELSE [val |-> [type |-> "ArrayItemType", ValueType |-> r.val],
          err |-> NoErr, built |-> <<item.Position>> \o r.built]

NewArrayItemType(item) == NewArrayItemTypeOf(item, newCollectionItemValueType(item.Value))

\* A case of newCollectionItemValueType after NewMapType or NewArrayType
\* returned r.
ValueTypeOf(r) ==
    IF r.err # NoErr
    THEN [val |-> Nil, err |-> r.err, built |-> r.built]
    ELSE [val |-> r.val, err |-> NoErr, built |-> r.built]

\* The dispatch with a case for nil that returns no type and no error.
newCollectionItemValueType_NilCase(collectionItemValue) ==
    CASE collectionItemValue.kind = "map" -> ValueTypeOf(NewMapType(collectionItemValue))
      [] collectionItemValue.kind = "array" -> ValueTypeOf(NewArrayType(collectionItemValue))
      [] collectionItemValue.kind = "string" ->
           [val |-> [type |-> "ScalarType", Type |-> "string"], err |-> NoErr, built |-> <<>>]
      [] collectionItemValue.kind = "int" ->
           [val |-> [type |-> "ScalarType", Type |-> "int"], err |-> NoErr, built |-> <<>>]
      [] collectionItemValue.kind = "bool" ->
           [val |-> [type |-> "ScalarType", Type |-> "bool"], err |-> NoErr, built |-> <<>>]
      [] collectionItemValue.kind = "nil" ->
           [val |-> Nil, err |-> NoErr, built |-> <<>>]
      [] OTHER ->
           [val |-> Nil, err |-> [msg |-> ErrUnknownType, found |-> 0, at |-> NoAt],
            built |-> <<>>]

\* The dispatch without the case for bool.
newCollectionItemValueType_NoBool(collectionItemValue) ==
    CASE collectionItemValue.kind = "map" -> ValueTypeOf(NewMapType(collectionItemValue))
      [] collectionItemValue.kind = "array" -> ValueTypeOf(NewArrayType(collectionItemValue))
      [] collectionItemValue.kind = "string" ->
           [val |-> [type |-> "ScalarType", Type |-> "string"], err |-> NoErr, built |-> <<>>]
      [] collectionItemValue.kind = "int" ->
           [val |-> [type |-> "ScalarType", Type |-> "int"], err |-> NoErr, built |-> <<>>]
      [] OTHER ->
           [val |-> Nil, err |-> [msg |-> ErrUnknownType, found |-> 0, at |-> NoAt],
            built |-> <<>>]

newCollectionItemValueType(collectionItemValue) ==
    CASE collectionItemValue.kind = "map" -> ValueTypeOf(NewMapType(collectionItemValue))
      [] collectionItemValue.kind = "array" -> ValueTypeOf(NewArrayType(collectionItemValue))
      [] collectionItemValue.kind = "string" ->
           [val |-> [type |-> "ScalarType", Type |-> "string"], err |-> NoErr, built |-> <<>>]
      [] collectionItemValue.kind = "int" ->
           [val |-> [type |-> "ScalarType", Type |-> "int"], err |-> NoErr, built |-> <<>>]
      [] collectionItemValue.kind = "bool" ->
           [val |-> [type |-> "ScalarType", Type |-> "bool"], err |-> NoErr, built |-> <<>>]
      [] OTHER ->
           [val |-> Nil, err |-> [msg |-> ErrUnknownType, found |-> 0, at |-> NoAt],
            built |-> <<>>]

\* NewDocumentSchema after the switch on doc.Value left r: the value type and
\* error of the case taken, no value type and no error when none was.
NewDocumentSchemaOf(d, r) ==
    IF r.err # NoErr
    THEN [val |-> Nil, err |-> r.err, built |-> r.built]
    ELSE [val |-> [Name |-> "dataValues", Source |-> d,
                   Allowed |-> [type |-> "DocumentType", Source |-> d,
                                ValueType |-> r.val]],
          err |-> NoErr, built |-> r.built]

\* NewDocumentSchema that derives the type of every top-level value.
NewDocumentSchema_TypeAll(d) ==
    NewDocumentSchemaOf(d, newCollectionItemValueType(d.Value))

NewDocumentSchema(d) ==
    NewDocumentSchemaOf(d,
        CASE d.Value.kind = "map" -> NewMapType(d.Value)
          [] d.Value.kind = "array" -> NewArrayType(d.Value)
          [] OTHER -> [val |-> Nil, err |-> NoErr, built |-> <<>>])

\* MapItemType.IsNullable
IsNullable(t) == AnnotationSchemaNullable \in t.annotations

---------------------------------------------------------------------------
(* The state machine: one builder call on the chosen document or on a node *)
(* inside it, then, after a map item was built, IsNullable on the result.  *)

NoResult == [val |-> Nil, err |-> NoErr, built |-> <<>>]

Init ==
    /\ doc \in Documents
    /\ op = "none"
    /\ arg = doc
    /\ out = NoResult
    /\ nullable = FALSE

CallNewDocumentSchema ==
    /\ op = "none"
    /\ op' = "NewDocumentSchema"
    /\ arg' = doc
    /\ out' = NewDocumentSchema(doc)
    /\ nullable' = FALSE
    /\ UNCHANGED doc

CallNewMapType ==
    \E m \in MapsOf(doc) :
        /\ op = "none"
        /\ op' = "NewMapType"
        /\ arg' = m
        /\ out' = NewMapType(m)
        /\ nullable' = FALSE
        /\ UNCHANGED doc

CallNewMapItemType ==
    \E item \in MapItemsOf(doc) :
        /\ op = "none"
        /\ op' = "NewMapItemType"
        /\ arg' = item
        /\ out' = NewMapItemType(item)
        /\ nullable' = FALSE
        /\ UNCHANGED doc

CallNewArrayType ==
    \E a \in ArraysOf(doc) :
        /\ op = "none"
        /\ op' = "NewArrayType"
        /\ arg' = a
        /\ out' = NewArrayType(a)
        /\ nullable' = FALSE
        /\ UNCHANGED doc

CallNewArrayItemType ==
    \E item \in ArrayItemsOf(doc) :
        /\ op = "none"
        /\ op' = "NewArrayItemType"
        /\ arg' = item
        /\ out' = NewArrayItemType(item)
        /\ nullable' = FALSE
        /\ UNCHANGED doc

CallNewCollectionItemValueType ==
    \E item \in MapItemsOf(doc) \cup ArrayItemsOf(doc) :
        /\ op = "none"
        /\ op' = "newCollectionItemValueType"
        /\ arg' = item.Value
        /\ out' = newCollectionItemValueType(item.Value)
        /\ nullable' = FALSE
        /\ UNCHANGED doc

\* IsNullable on the MapItemType the last call built.
CallIsNullable ==
    /\ op = "NewMapItemType"
    /\ out.err = NoErr
    /\ op' = "IsNullable"
    /\ nullable' = IsNullable(out.val)
    /\ UNCHANGED <<doc, arg, out>>

Next ==
    \/ CallNewDocumentSchema
    \/ CallNewMapType
    \/ CallNewMapItemType
    \/ CallNewArrayType
    \/ CallNewArrayItemType
    \/ CallNewCollectionItemValueType
    \/ CallIsNullable

Spec == Init /\ [][Next]_vars

TypeOK ==
    /\ doc \in Documents
    /\ op \in {"none", "NewDocumentSchema", "NewMapType", "NewMapItemType", "NewArrayType",
               "NewArrayItemType", "newCollectionItemValueType", "IsNullable"}
    /\ nullable \in BOOLEAN
---------------------------------------------------------------------------
(* What a schema document says, stated without the builders: the events of *)
(* a complete walk over a value (every item entered, every node that       *)
(* cannot be built), and the type a well-formed value describes.           *)

RECURSIVE Flatten(_)
Flatten(seqs) == IF seqs = <<>> THEN <<>> ELSE Head(seqs) \o Flatten(Tail(seqs))

EnterEvent(pos) == [ev |-> "enter", pos |-> pos, err |-> NoErr]

FailEvent(msg, found, at) ==
    [ev |-> "fail", pos |-> NoPosition, err |-> [msg |-> msg, found |-> found, at |-> at]]

IsArrayItem(item) == "Key" \notin DOMAIN item

RECURSIVE Events(_)
RECURSIVE ItemEvents(_)

\* An item is entered, then its value is walked; a nullable array item cannot
\* be built.
ItemEvents(item) ==
    <<EnterEvent(item.Position)>> \o Events(item.Value)
    \o (IF IsArrayItem(item) /\ AnnotationSchemaNullable \in item.annotations
        THEN <<FailEvent(ErrNullableItem, 0, <<"line", item.Position>>)>>
        ELSE <<>>)

\* An array without exactly one item cannot be built, nor can a value that
\* is not a map, an array, a string, an integer or a boolean.
Events(v) ==
    CASE v.kind = "map" ->
           Flatten([i \in 1..Len(v.Items) |-> ItemEvents(v.Items[i])])
      [] v.kind = "array" ->
           IF Len(v.Items) = 0
           THEN <<FailEvent(ErrEmptyArray, 0, <<"line", v.Position>>)>>
           ELSE IF Len(v.Items) # 1
           THEN <<FailEvent(ErrManyItems, Len(v.Items), <<"line", v.Position>>)>>
           ELSE ItemEvents(v.Items[1])
      [] v.kind \in ScalarKinds -> <<>>
      [] OTHER -> <<FailEvent(ErrUnknownType, 0, NoAt)>>

Failures(evs) == { i \in 1..Len(evs) : evs[i].ev = "fail" }

\* Index of the first node that cannot be built; past the end when none.
FirstFailure(evs) ==
    IF Failures(evs) = {} THEN Len(evs) + 1
    ELSE CHOOSE i \in Failures(evs) : \A j \in Failures(evs) : i <= j

ExpectedErr(evs) ==
    IF Failures(evs) = {} THEN NoErr ELSE evs[FirstFailure(evs)].err

RECURSIVE Entered(_, _)
\* Positions of the items entered among the first n events.
Entered(evs, n) ==
    IF n = 0 THEN <<>>
    ELSE Entered(evs, n - 1) \o (IF evs[n].ev = "enter" THEN <<evs[n].pos>> ELSE <<>>)

ExpectedBuilt(evs) == Entered(evs, FirstFailure(evs) - 1)

WellFormed(v) == Failures(Events(v)) = {}

RECURSIVE ExpectedType(_)
\* The type a well-formed value describes.
ExpectedType(v) ==
    CASE v.kind = "map" ->
           [type |-> "MapType",
            Items |-> IF AnnotationSchemaNullable \in v.annotations THEN <<>>
                      ELSE [i \in 1..Len(v.Items) |->
                              [type |-> "MapItemType",
                               Key |-> v.Items[i].Key,
                               ValueType |-> ExpectedType(v.Items[i].Value),
                               DefaultValue |->
                                   IF AnnotationSchemaNullable \in v.Items[i].annotations
                                   THEN NilValue
                                   ELSE IF v.Items[i].Value.kind = "array"
                                   THEN [v.Items[i].Value EXCEPT !.Items = <<>>,
                                                                 !.Position = NoPosition]
                                   ELSE v.Items[i].Value,
                               Position |-> v.Items[i].Position,
                               annotations |-> v.Items[i].annotations]]]
      [] v.kind = "array" ->
           [type |-> "ArrayType",
            ItemsType |-> [type |-> "ArrayItemType",
                           ValueType |-> ExpectedType(v.Items[1].Value)]]
      [] OTHER -> [type |-> "ScalarType", Type |-> v.kind]

BuildOps == {"NewDocumentSchema", "NewMapType", "NewMapItemType", "NewArrayType",
             "NewArrayItemType", "newCollectionItemValueType"}

\* The complete walk that belongs to the recorded call.
ArgEvents ==
    CASE op = "NewDocumentSchema" ->
           IF arg.Value.kind \in {"map", "array"} THEN Events(arg.Value) ELSE <<>>
      [] op \in {"NewMapItemType", "NewArrayItemType"} -> ItemEvents(arg)
      [] OTHER -> Events(arg)

---------------------------------------------------------------------------
(* Claims                                                                  *)

CountError(a) ==
    [msg |-> IF Len(a.Items) = 0 THEN ErrEmptyArray ELSE ErrManyItems,
     found |-> Len(a.Items),
     at |-> <<"line", a.Position>>]

\* C1 as stated: NewArrayType fails with the count-mismatch error when the
\* array's item count is not 1, and with exactly one item it succeeds with
\* ItemsType the type derived from that item.
C1_AsStated ==
    op = "NewArrayType" =>
        IF Len(arg.Items) # 1
        THEN out.val = Nil /\ out.err = CountError(arg)
        ELSE /\ out.err = NoErr
             /\ out.val.type = "ArrayType"
             /\ out.val.ItemsType.type = "ArrayItemType"
             /\ out.val.ItemsType.ValueType = ExpectedType(arg.Items[1].Value)

\* C1 amended: NewArrayType fails with the count-mismatch error (naming the
\* array's position, and the count found when it is above one) when the item
\* count is not 1; with exactly one item it succeeds if and only if that item
\* can be built (its value is well formed and the item is not nullable), and
\* then ItemsType is the type derived from that item; otherwise it returns
\* nil and the error of the item's build.
C1_ArrayType ==
    op = "NewArrayType" =>
        IF Len(arg.Items) # 1
        THEN out.val = Nil /\ out.err = CountError(arg)
        ELSE IF WellFormed(arg.Items[1].Value)
                /\ AnnotationSchemaNullable \notin arg.Items[1].annotations
        THEN /\ out.err = NoErr
             /\ out.val.type = "ArrayType"
             /\ out.val.ItemsType.type = "ArrayItemType"
             /\ out.val.ItemsType.ValueType = ExpectedType(arg.Items[1].Value)
        ELSE /\ out.val = Nil
             /\ out.err = ExpectedErr(ItemEvents(arg.Items[1]))
             /\ out.err # NoErr

\* C1 witness: an array of one item holding a one-item array was built.
C1_Witness ==
    /\ op = "NewArrayType"
    /\ Len(arg.Items) = 1
    /\ arg.Items[1].Value.kind = "array"
    /\ out.err = NoErr
    /\ out.val.ItemsType.ValueType.type = "ArrayType"

\* C2 as stated: a nullable array item fails NewArrayItemType with the fixed
\* nullable-item error, whatever value it holds.
C2_AsStated ==
    (op = "NewArrayItemType" /\ AnnotationSchemaNullable \in arg.annotations) =>
        /\ out.val = Nil
        /\ out.err.msg = ErrNullableItem

\* C2 amended: a nullable array item always fails NewArrayItemType; the error
\* is the fixed nullable-item error, naming the item's position, whenever the
\* item's value is well formed (its own type derivation succeeds); when the
\* value's type derivation fails, the error returned is that derivation's
\* (which names the nested node, not this item).
C2_NullableArrayItem ==
    (op = "NewArrayItemType" /\ AnnotationSchemaNullable \in arg.annotations) =>
        /\ out.val = Nil
        /\ out.err # NoErr
        /\ IF WellFormed(arg.Value)
           THEN out.err = [msg |-> ErrNullableItem, found |-> 0,
                           at |-> <<"line", arg.Position>>]
           ELSE /\ out.err = ExpectedErr(Events(arg.Value))
                /\ out.err # [msg |-> ErrNullableItem, found |-> 0,
                               at |-> <<"line", arg.Position>>]

\* C2 witness: a nullable array item holding a map was rejected with the
\* nullable-item error.
C2_Witness ==
    /\ op = "NewArrayItemType"
    /\ AnnotationSchemaNullable \in arg.annotations
    /\ arg.Value.kind = "map"
    /\ out.err.msg = ErrNullableItem

\* C6: a build returns either a value and no error, or nil and an error; it
\* fails exactly when some node below its argument cannot be built, the error
\* is that of the first such node in the order of the depth-first walk (an
\* item's value before the item's own annotation check, items in order), and
\* the items entered are those the walk enters before that node, no more.
C6_FailFast ==
    op \in BuildOps =>
        /\ (out.err # NoErr) <=> (out.val = Nil)
        /\ (out.err # NoErr) <=> (Failures(ArgEvents) # {})
        /\ out.err = ExpectedErr(ArgEvents)
        /\ out.built = ExpectedBuilt(ArgEvents)

\* C6 witness: a document with two nodes that cannot be built, and an item
\* after the first of them, failed to build.
C6_Witness ==
    /\ op = "NewDocumentSchema"
    /\ out.err # NoErr
    /\ Cardinality(Failures(ArgEvents)) >= 2
    /\ Len(out.built) < Len(Entered(ArgEvents, Len(ArgEvents)))

\* The keys of a sequence of map items or of map item types, in order.
KeysOf(items) == [i \in 1..Len(items) |-> items[i].Key]

\* C3 as stated: for every document whose top-level value is a map,
\* NewDocumentSchema returns a schema whose Allowed.ValueType is a MapType
\* with one MapItemType per entry of the map, same keys, same order.
C3_AsStated ==
    (op = "NewDocumentSchema" /\ arg.Value.kind = "map") =>
        /\ out.err = NoErr
        /\ out.val.Allowed.ValueType.type = "MapType"
        /\ KeysOf(out.val.Allowed.ValueType.Items) = KeysOf(arg.Value.Items)
        /\ \A i \in 1..Len(arg.Value.Items) :
               out.val.Allowed.ValueType.Items[i].type = "MapItemType"

\* C3 amended: for every document whose top-level value is a map and whose
\* schema NewDocumentSchema builds without error, Allowed.ValueType is a
\* MapType; unless the map is annotated nullable it holds one MapItemType per
\* entry of the map, same keys, same order (a nullable map gives no items).
C3_MapDocument ==
    (op = "NewDocumentSchema" /\ arg.Value.kind = "map" /\ out.err = NoErr) =>
        /\ out.val.Allowed.ValueType.type = "MapType"
        /\ IF AnnotationSchemaNullable \in arg.Value.annotations
           THEN out.val.Allowed.ValueType.Items = <<>>
           ELSE /\ KeysOf(out.val.Allowed.ValueType.Items) = KeysOf(arg.Value.Items)
                /\ \A i \in 1..Len(arg.Value.Items) :
                       out.val.Allowed.ValueType.Items[i].type = "MapItemType"

\* C3 witness: a schema was built from a top-level map of two entries.
C3_Witness ==
    /\ op = "NewDocumentSchema"
    /\ arg.Value.kind = "map"
    /\ Len(arg.Value.Items) = 2
    /\ out.err = NoErr
    /\ Len(out.val.Allowed.ValueType.Items) = 2

\* C4 as stated: a map annotated nullable yields a MapType with zero items,
\* whatever fields it contains.
C4_AsStated ==
    (op = "NewMapType" /\ AnnotationSchemaNullable \in arg.annotations) =>
        /\ out.err = NoErr
        /\ out.val.type = "MapType"
        /\ out.val.Items = <<>>

\* C4 amended: a map annotated nullable all of whose fields can be built
\* yields a MapType with zero items, however many fields it has; when a
\* field cannot be built, NewMapType returns no MapType and that error.
C4_NullableMap ==
    (op = "NewMapType" /\ AnnotationSchemaNullable \in arg.annotations) =>
        IF \A i \in 1..Len(arg.Items) : WellFormed(arg.Items[i].Value)
        THEN /\ out.err = NoErr
             /\ out.val.type = "MapType"
             /\ out.val.Items = <<>>
        ELSE /\ out.val = Nil
             /\ out.err # NoErr

\* C4 witness: a nullable map of two fields gave a MapType without items.
C4_Witness ==
    /\ op = "NewMapType"
    /\ AnnotationSchemaNullable \in arg.annotations
    /\ Len(arg.Items) = 2
    /\ out.err = NoErr
    /\ out.val.Items = <<>>

\* The item without the nullable annotation.
WithoutNullable(item) ==
    [item EXCEPT !.annotations = item.annotations \ {AnnotationSchemaNullable}]

\* The default of an item that is not nullable: the exemplar, or an empty
\* array for an array exemplar.
PlainDefault(item, t) ==
    IF item.Value.kind = "array"
    THEN t.DefaultValue.kind = "array" /\ Len(t.DefaultValue.Items) = 0
         /\ t.DefaultValue # item.Value
    ELSE t.DefaultValue = item.Value

\* C5: a MapItemType built from a nullable item has IsNullable() true and a
\* nil DefaultValue, also for an array exemplar; the same item built without
\* the annotation has IsNullable() false and the exemplar as DefaultValue,
\* an empty array when the exemplar is an array.
C5_Nullability ==
    op = "IsNullable" =>
        LET plain == NewMapItemType(WithoutNullable(arg)).val
        IN  /\ nullable <=> (AnnotationSchemaNullable \in arg.annotations)
            /\ nullable => out.val.DefaultValue = NilValue
            /\ ~nullable => PlainDefault(arg, out.val)
            /\ ~IsNullable(plain)
            /\ PlainDefault(arg, plain)

\* C5 witness: IsNullable answered true for a nullable item whose exemplar
\* is an array.
C5_Witness ==
    /\ op = "IsNullable"
    /\ nullable
    /\ arg.Value.kind = "array"
    /\ out.val.DefaultValue = NilValue

RECURSIVE Leaves(_)
\* The kinds of the values inside v that are neither map nor array.
Leaves(v) ==
    IF v.kind \in {"map", "array"}
    THEN UNION { Leaves(v.Items[i].Value) : i \in 1..Len(v.Items) }
    ELSE {v.kind}

\* C7 as stated: the unknown-kind error is raised exactly for values whose
\* kind is outside {map, array, string, int, bool, nil}; an item whose value
\* is nil does not fail with it.
C7_AsStated ==
    /\ (op = "newCollectionItemValueType" /\ arg.kind \notin {"map", "array"}) =>
           ((out.err.msg = ErrUnknownType) <=> (arg.kind \notin ScalarKinds \cup {"nil"}))
    /\ (op \in {"NewMapItemType", "NewArrayItemType"} /\ arg.Value.kind = "nil") =>
           out.err.msg # ErrUnknownType

\* C7 amended: the unknown-kind error is raised exactly for values whose
\* kind is outside {map, array, string, int, bool}; a nil value (YAML null)
\* raises it like any other unlisted kind, and so fails the build of the map
\* item or array item that holds it.  A map or array returns it only for
\* such a value inside it.
C7_UnknownKind ==
    /\ (op = "newCollectionItemValueType" /\ arg.kind \notin {"map", "array"}) =>
           ((out.err.msg = ErrUnknownType) <=> (arg.kind \notin ScalarKinds))
    /\ (op = "newCollectionItemValueType" /\ out.err.msg = ErrUnknownType) =>
           Leaves(arg) \ ScalarKinds # {}
    /\ (op \in {"NewMapItemType", "NewArrayItemType"} /\ arg.Value.kind = "nil") =>
           out.val = Nil /\ out.err.msg = ErrUnknownType

\* C7 witness: a map item holding nil failed with the unknown-kind error.
C7_Witness ==
    /\ op = "NewMapItemType"
    /\ arg.Value.kind = "nil"
    /\ out.err.msg = ErrUnknownType

\* C8: every error of schema construction names the position of the node
\* that could not be built.
C8_ErrorsCarryPosition ==
    (op \in BuildOps /\ out.err # NoErr) =>
        /\ out.err.at # NoAt
        /\ \E v \in SubValues(doc.Value) :
               \/ out.err.at = <<"line", v.Position>>
               \/ \E i \in 1..Len(v.Items) : out.err.at = <<"line", v.Items[i].Position>>

RECURSIVE WellTyped(_)
\* Every map item and array item of the type tree has a ValueType that is a
\* MapType, an ArrayType or a ScalarType of string, int or bool.
WellTyped(t) ==
    CASE t.type = "MapType" ->
           \A i \in 1..Len(t.Items) :
               t.Items[i].type = "MapItemType" /\ WellTyped(t.Items[i].ValueType)
      [] t.type = "ArrayType" ->
           t.ItemsType.type = "ArrayItemType" /\ WellTyped(t.ItemsType.ValueType)
      [] t.type = "ScalarType" -> t.Type \in ScalarKinds
      [] OTHER -> FALSE

\* C9: newCollectionItemValueType maps a map to the MapType of NewMapType,
\* an array to the ArrayType of NewArrayType, a string, int or bool to the
\* ScalarType of that kind and any other kind to the unknown-kind error; in
\* every type tree it builds, each item's ValueType is present and is a
\* MapType, an ArrayType or a ScalarType of string, int or bool.
C9_Dispatch ==
    op = "newCollectionItemValueType" =>
        /\ arg.kind = "map" =>
               /\ out.err = ExpectedErr(Events(arg))
               /\ out.err = NoErr => out.val.type = "MapType"
        /\ arg.kind = "array" =>
               /\ out.err = ExpectedErr(Events(arg))
               /\ out.err = NoErr => out.val.type = "ArrayType"
        /\ arg.kind \in ScalarKinds =>
               out.err = NoErr /\ out.val = [type |-> "ScalarType", Type |-> arg.kind]
        /\ arg.kind \notin {"map", "array"} \cup ScalarKinds =>
               out.val = Nil /\ out.err.msg = ErrUnknownType
        /\ out.err = NoErr =>
               out.val = ExpectedType(arg) /\ WellTyped(out.val)

\* C9 witness: the type of an array of booleans was derived.
C9_Witness ==
    /\ op = "newCollectionItemValueType"
    /\ arg.kind = "array"
    /\ out.err = NoErr
    /\ out.val.type = "ArrayType"
    /\ out.val.ItemsType.ValueType = [type |-> "ScalarType", Type |-> "bool"]

\* C10: NewDocumentSchema on a document whose top-level value is neither a
\* map nor an array succeeds with Allowed present and Allowed.ValueType
\* absent; every schema it returns is named "dataValues", has the document
\* as Source and an Allowed whose Source is the document; it fails only when
\* the build of a top-level map or array fails.
C10_DocumentSchema ==
    op = "NewDocumentSchema" =>
        /\ arg.Value.kind \notin {"map", "array"} =>
               /\ out.err = NoErr
               /\ out.val.Allowed # Nil
               /\ out.val.Allowed.ValueType = Nil
        /\ out.err = NoErr =>
               /\ out.val.Name = "dataValues"
               /\ out.val.Source = arg
               /\ out.val.Allowed.type = "DocumentType"
               /\ out.val.Allowed.Source = arg
               /\ arg.Value.kind \in {"map", "array"} =>
                      out.val.Allowed.ValueType = ExpectedType(arg.Value)
        /\ out.err # NoErr =>
               /\ out.val = Nil
               /\ arg.Value.kind \in {"map", "array"}
               /\ ~WellFormed(arg.Value)

\* C10 witness: a schema was built from a document whose top-level value is
\* null.
C10_Witness ==
    /\ op = "NewDocumentSchema"
    /\ arg.Value.kind = "nil"
    /\ out.err = NoErr
    /\ out.val.Allowed.ValueType = Nil

====
